---------------------------- MODULE Spec2Model ----------------------------
(***************************************************************************)
(* A model of json3_to_vtt.py: the JSON3 -> WebVTT conversion pipeline     *)
(* (JSON3ToVTTConverter.convert_file) and the pure functions it is built   *)
(* from.  Text is a sequence of one-character strings, so that the regular *)
(* expressions and str.replace calls of clean_text are computed character  *)
(* by character.                                                           *)
(***************************************************************************)
EXTENDS Integers, Sequences, FiniteSets, TLC

VARIABLES
    data,         \* convert_file: the input file (missing, unparsable, or the parsed document)
    pc,           \* convert_file: the statement the call has reached
    valid,        \* convert_file: what validate_json3_structure returned
    events,       \* convert_file: the local `events`
    vtt_content,  \* convert_file: the local `vtt_content`
    output_file,  \* the file at output_path
    output_before, \* the file at output_path when convert_file was called
    result,       \* convert_file: the value returned
    error,        \* convert_file: which logger.error / except branch ended the call
    stages,       \* the pipeline stages the call has run, in order
    merge_runs,   \* merge_overlapping_events applied repeatedly: <<x, f(x), f(f(x))>>
    clean_runs,   \* clean_text applied repeatedly: <<s, f(s), f(f(s))>>
    ms_in,        \* the argument of a milliseconds_to_vtt_time call
    vtt_time      \* what that call returned

vars == <<data, pc, valid, events, vtt_content, output_file, output_before,
          result, error, stages, merge_runs, clean_runs, ms_in, vtt_time>>

pipeline_vars == <<data, pc, valid, events, vtt_content, output_file,
                   output_before, result, error, stages>>

(***************************************************************************)
(* Characters and strings                                                  *)
(***************************************************************************)
NL == "\n"
NBSP == "nbsp"

\* str.isspace(): what \s matches in a str pattern and what str.strip() removes.
\* U+00A0 is white space for both.
IsSpace(c) == c \in {" ", NL, NBSP}

\* str.lower() on the letters the model's texts use
Lower(c) ==
    CASE c = "H" -> "h"
      [] c = "I" -> "i"
      [] c = "Y" -> "y"
      [] c = "O" -> "o"
      [] OTHER -> c

LowerStr(s) == [i \in 1..Len(s) |-> Lower(s[i])]

RECURSIVE Concat(_)
\* ''.join(parts)
Concat(parts) ==
    IF parts = <<>> THEN <<>> ELSE Head(parts) \o Concat(Tail(parts))

\* whether `pat` occurs in `s` at index i
MatchAt(s, pat, i) ==
    /\ i + Len(pat) - 1 <= Len(s)
    /\ \A k \in 1..Len(pat) : s[i + k - 1] = pat[k]

RECURSIVE ReplaceFrom(_, _, _, _)
\* str.replace(old, new): left to right, non-overlapping occurrences of old
ReplaceFrom(s, old, new, i) ==
    IF i > Len(s) THEN <<>>
    ELSE IF MatchAt(s, old, i)
         THEN new \o ReplaceFrom(s, old, new, i + Len(old))
         ELSE <<s[i]>> \o ReplaceFrom(s, old, new, i + 1)

Replace(s, old, new) == ReplaceFrom(s, old, new, 1)

\* str.strip()
Strip(s) ==
    LET keep == {i \in 1..Len(s) : ~IsSpace(s[i])}
    IN  IF keep = {} THEN <<>>
        ELSE LET lo == CHOOSE i \in keep : \A j \in keep : i <= j
                 hi == CHOOSE i \in keep : \A j \in keep : i >= j
             IN  SubSeq(s, lo, hi)

RECURSIVE StripTagsFrom(_, _)
\* re.sub(r'<[^>]+>', '', text): at a '<', the pattern matches when at least one
\* character that is not '>' follows and a '>' comes after; the match ends at the
\* first '>'.  Scanning resumes after the match.
StripTagsFrom(s, i) ==
    IF i > Len(s) THEN <<>>
    ELSE LET closers == {j \in (i + 1)..Len(s) : s[j] = ">"}
         IN  IF s[i] = "<" /\ closers # {} /\ s[i + 1] # ">"
             THEN LET j == CHOOSE x \in closers : \A y \in closers : x <= y
                  IN  StripTagsFrom(s, j + 1)
             ELSE <<s[i]>> \o StripTagsFrom(s, i + 1)

StripTags(s) == StripTagsFrom(s, 1)

RECURSIVE CollapseNewlinesFrom(_, _)
\* re.sub(r'\n+', ' ', text)
CollapseNewlinesFrom(s, i) ==
    IF i > Len(s) THEN <<>>
    ELSE IF s[i] = NL
         THEN IF i > 1 /\ s[i - 1] = NL
              THEN CollapseNewlinesFrom(s, i + 1)
              ELSE <<" ">> \o CollapseNewlinesFrom(s, i + 1)
         ELSE <<s[i]>> \o CollapseNewlinesFrom(s, i + 1)

CollapseNewlines(s) == CollapseNewlinesFrom(s, 1)

RECURSIVE CollapseSpacesFrom(_, _)
\* re.sub(r'\s+', ' ', text)
CollapseSpacesFrom(s, i) ==
    IF i > Len(s) THEN <<>>
    ELSE IF IsSpace(s[i])
         THEN IF i > 1 /\ IsSpace(s[i - 1])
              THEN CollapseSpacesFrom(s, i + 1)
              ELSE <<" ">> \o CollapseSpacesFrom(s, i + 1)
         ELSE <<s[i]>> \o CollapseSpacesFrom(s, i + 1)

CollapseSpaces(s) == CollapseSpacesFrom(s, 1)

\* the dict `replacements`, in insertion order (the order .items() yields)
replacements ==
    << << <<"&", "a", "m", "p", ";">>, <<"&">> >>,
       << <<"&", "l", "t", ";">>, <<"<">> >>,
       << <<"&", "g", "t", ";">>, <<">">> >>,
       << <<"&", "q", "u", "o", "t", ";">>, <<"\"">> >>,
       << <<"&", "#", "3", "9", ";">>, <<"'">> >>,
       << <<NBSP>>, <<" ">> >> >>

RECURSIVE ReplaceAll(_, _, _)
\* for old, new in replacements.items(): text = text.replace(old, new)
ReplaceAll(text, table, k) ==
    IF k > Len(table) THEN text
    ELSE ReplaceAll(Replace(text, table[k][1], table[k][2]), table, k + 1)

\* clean_text with the tag filter run after the white-space steps
clean_text_TagsLast(text) ==
    IF text = <<>> THEN <<>>
    ELSE ReplaceAll(StripTags(Strip(CollapseSpaces(CollapseNewlines(text)))),
                    replacements, 1)

clean_text(text) ==
    IF text = <<>> THEN <<>>
    ELSE ReplaceAll(Strip(CollapseSpaces(CollapseNewlines(StripTags(text)))),
                    replacements, 1)

(***************************************************************************)
(* milliseconds_to_vtt_time                                                *)
(***************************************************************************)
Digit(d) == <<"0", "1", "2", "3", "4", "5", "6", "7", "8", "9">>[d + 1]

RECURSIVE IntToStr(_)
\* f"{n}" for n >= 0
IntToStr(n) ==
    IF n < 10 THEN <<Digit(n)>> ELSE IntToStr(n \div 10) \o <<Digit(n % 10)>>

\* f"{n:0{width}d}" for n >= 0: zero-padded to at least `width` digits
ZeroPad(n, width) ==
    LET d == IntToStr(n)
    IN  IF Len(d) >= width THEN d ELSE [i \in 1..(width - Len(d)) |-> "0"] \o d

\* milliseconds_to_vtt_time with the hours wrapped at 24
milliseconds_to_vtt_time_Wrap24(milliseconds) ==
    LET m == IF milliseconds < 0 THEN 0 ELSE milliseconds
        total_seconds == m \div 1000
        ms == m % 1000
        hours == (total_seconds \div 3600) % 24
        minutes == (total_seconds % 3600) \div 60
        seconds == total_seconds % 60
    IN  ZeroPad(hours, 2) \o <<":">> \o ZeroPad(minutes, 2) \o <<":">>
            \o ZeroPad(seconds, 2) \o <<".">> \o ZeroPad(ms, 3)

milliseconds_to_vtt_time(milliseconds) ==
    LET m == IF milliseconds < 0 THEN 0 ELSE milliseconds
        total_seconds == m \div 1000
        ms == m % 1000
        hours == total_seconds \div 3600
        minutes == (total_seconds % 3600) \div 60
        seconds == total_seconds % 60
    IN  ZeroPad(hours, 2) \o <<":">> \o ZeroPad(minutes, 2) \o <<":">>
            \o ZeroPad(seconds, 2) \o <<".">> \o ZeroPad(ms, 3)

(***************************************************************************)
(* merge_overlapping_events.  A cue is the tuple <<start_ms, end_ms, text>>.*)
(***************************************************************************)
MergeTolerance == 500

Max(a, b) == IF a >= b THEN a ELSE b

\* text.strip().lower() == current_text.strip().lower()
SameText(a, b) == LowerStr(Strip(a)) = LowerStr(Strip(b))

\* the condition without the 500 ms of tolerance
ShouldMerge_NoTolerance(current, c) ==
    /\ c[1] <= current[2]
    /\ SameText(c[3], current[3])

\* the condition of the `if` in the loop of merge_overlapping_events
ShouldMerge(current, c) ==
    /\ c[1] <= current[2] + MergeTolerance
    /\ SameText(c[3], current[3])

RECURSIVE MergeLoop(_, _, _, _)
\* the for loop over events[1:], then the final append
MergeLoop(evs, i, current, merged) ==
    IF i > Len(evs) THEN Append(merged, current)
    ELSE IF ShouldMerge(current, evs[i])
         THEN MergeLoop(evs, i + 1,
                        <<current[1], Max(current[2], evs[i][2]), current[3]>>,
                        merged)
         ELSE MergeLoop(evs, i + 1, evs[i], Append(merged, current))

RECURSIVE MergePairwiseLoop(_, _, _)
\* a merger that compares each cue with its predecessor in the input instead of
\* with the running accumulator
MergePairwiseLoop(evs, i, merged) ==
    IF i > Len(evs) THEN merged
    ELSE LET last == merged[Len(merged)]
         IN  IF ShouldMerge(evs[i - 1], evs[i])
             THEN MergePairwiseLoop(evs, i + 1,
                      [merged EXCEPT ![Len(merged)] =
                          <<last[1], Max(last[2], evs[i][2]), last[3]>>])
             ELSE MergePairwiseLoop(evs, i + 1, Append(merged, evs[i]))

merge_overlapping_events_Pairwise(evs) ==
    IF evs = <<>> THEN <<>> ELSE MergePairwiseLoop(evs, 2, <<evs[1]>>)

merge_overlapping_events(evs) ==
    IF evs = <<>> THEN <<>> ELSE MergeLoop(evs, 2, evs[1], <<>>)

(***************************************************************************)
(* The parsed document, as json.load returns it.  A scalar is a record     *)
(* tagged with its type ("absent" for a key the dict does not hold); an    *)
(* object carries every key the code reads.                                *)
(***************************************************************************)
Absent == [t |-> "absent", n |-> 0, s |-> <<>>]
JNull == [t |-> "null", n |-> 0, s |-> <<>>]
JInt(n) == [t |-> "int", n |-> n, s |-> <<>>]
JStr(s) == [t |-> "str", n |-> 0, s |-> s]

\* key in d
HasKey(x) == x.t # "absent"
\* d.get(key) is None
IsNone(x) == x.t \in {"absent", "null"}

\* seq[:n]
FirstN(seq, n) == SubSeq(seq, 1, IF Len(seq) > n THEN n ELSE Len(seq))

(***************************************************************************)
(* validate_json3_structure                                                *)
(***************************************************************************)
ValidateSample == 5

\* isinstance(event, dict) and 'tStartMs' in event
IsValidEvent(event) == event.isdict /\ HasKey(event.tStartMs)

\* the validator with its sample check left out
validate_json3_structure_NoSample(root) ==
    /\ root.isdict
    /\ HasKey(root.events)
    /\ root.events.t = "list"

validate_json3_structure(root) ==
    /\ root.isdict
    /\ HasKey(root.events)
    /\ root.events.t = "list"
    /\ LET sample == FirstN(root.events.list, ValidateSample)
           valid_events == Cardinality({i \in 1..Len(sample) : IsValidEvent(sample[i])})
       IN  valid_events # 0

(***************************************************************************)
(* extract_text_from_segments and parse_json3_events                       *)
(***************************************************************************)
DefaultDurationMs == 2000

\* segment.get(key, ''), as a truth value and a text: a missing key and null are
\* both falsy
GetText(x) == IF x.t = "str" THEN x.s ELSE <<>>

\* segment.get('utf8', '') or segment.get('text', '')
SegmentText(segment) ==
    IF ~segment.isdict THEN <<>>
    ELSE IF GetText(segment.utf8) # <<>> THEN GetText(segment.utf8)
         ELSE GetText(segment.text)

\* `segments` is event.get('segs', []): the default when the key is missing, None
\* when it is null
extract_text_from_segments(segments) ==
    IF segments.t # "list" \/ segments.items = <<>> THEN <<>>
    ELSE clean_text(Concat([i \in 1..Len(segments.items) |->
                               SegmentText(segments.items[i])]))

\* start_ms + duration_ms, or start_ms + 2000, raises TypeError when tStartMs is a
\* string
EventRaises(event) == event.isdict /\ event.tStartMs.t = "str"

ParseRaises(root) ==
    \E i \in 1..Len(root.events.list) : EventRaises(root.events.list[i])

\* whether the loop body reaches events.append for this event
EventSurvives(event) ==
    /\ event.isdict
    /\ ~IsNone(event.tStartMs)
    /\ LET text == extract_text_from_segments(event.segs)
       IN  ~(text = <<>> \/ Len(Strip(text)) < 1)

\* the tuple the loop body appends, with start_ms clamped at 0
EventCue_Clamped(event) ==
    LET start_ms == event.tStartMs.n
        duration_ms == event.dDurationMs
        end_ms == IF ~IsNone(duration_ms) THEN start_ms + duration_ms.n
                  ELSE start_ms + DefaultDurationMs
    IN  <<Max(0, start_ms), end_ms, extract_text_from_segments(event.segs)>>

\* the tuple the loop body appends: (int(start_ms), int(end_ms), text)
EventCue(event) ==
    LET start_ms == event.tStartMs.n
        duration_ms == event.dDurationMs
        end_ms == IF ~IsNone(duration_ms) THEN start_ms + duration_ms.n
                  ELSE start_ms + DefaultDurationMs
    IN  <<start_ms, end_ms, extract_text_from_segments(event.segs)>>

RECURSIVE CollectEvents(_, _)
\* the for loop of parse_json3_events, from the i-th event on
CollectEvents(evs, i) ==
    IF i > Len(evs) THEN <<>>
    ELSE IF EventSurvives(evs[i])
         THEN <<EventCue(evs[i])>> \o CollectEvents(evs, i + 1)
         ELSE CollectEvents(evs, i + 1)

\* the order of events.sort() with no key: tuples compared field by field
SortsBefore_Tuple(a, b) == a[1] < b[1] \/ (a[1] = b[1] /\ a[2] < b[2])

\* the order of events.sort(key=lambda x: x[0])
SortsBefore(a, b) == a[1] < b[1]

\* one step of a stable sort: x goes after every element that does not sort after it
InsertStable(sorted, x) ==
    LET later == {i \in 1..Len(sorted) : SortsBefore(x, sorted[i])}
        at == IF later = {} THEN Len(sorted) + 1
              ELSE CHOOSE i \in later : \A j \in later : i <= j
    IN  SubSeq(sorted, 1, at - 1) \o <<x>> \o SubSeq(sorted, at, Len(sorted))

RECURSIVE SortFrom(_, _, _)
SortFrom(seq, i, sorted) ==
    IF i > Len(seq) THEN sorted
    ELSE SortFrom(seq, i + 1, InsertStable(sorted, seq[i]))

\* list.sort: stable
Sort(seq) == SortFrom(seq, 1, <<>>)

\* data.get('events', []) of a document that passed the validator
parse_json3_events(root) == Sort(CollectEvents(root.events.list, 1))

(***************************************************************************)
(* generate_vtt_content                                                    *)
(***************************************************************************)
RECURSIVE Join(_, _)
\* sep.join(lines)
Join(lines, sep) ==
    IF lines = <<>> THEN <<>>
    ELSE IF Len(lines) = 1 THEN lines[1]
         ELSE lines[1] \o sep \o Join(Tail(lines), sep)

Arrow == <<" ", "-", "-", ">", " ">>

RECURSIVE CueLines(_, _)
\* the four lines appended for the i-th cue and for those after it
CueLines(evs, i) ==
    IF i > Len(evs) THEN <<>>
    ELSE << IntToStr(i),
            milliseconds_to_vtt_time(evs[i][1]) \o Arrow
                \o milliseconds_to_vtt_time(evs[i][2]),
            evs[i][3],
            <<>> >> \o CueLines(evs, i + 1)

generate_vtt_content(evs) ==
    Join(<< <<"W", "E", "B", "V", "T", "T">>, <<>> >> \o CueLines(evs, 1), <<NL>>)

(***************************************************************************)
(* The inputs of convert_file                                              *)
(***************************************************************************)
MaxPad == 5
MaxTail == 2

SeqsUpTo(S, n) == UNION {[1..k -> S] : k \in 0..n}

NoSegs == [t |-> "absent", items |-> <<>>]
Segs(list) == [t |-> "list", items |-> list]
Utf8(s) == [isdict |-> TRUE, utf8 |-> JStr(s), text |-> Absent]
AltText(s) == [isdict |-> TRUE, utf8 |-> Absent, text |-> JStr(s)]
NotASegment == [isdict |-> FALSE, utf8 |-> Absent, text |-> Absent]
Event(start, duration, segs) ==
    [isdict |-> TRUE, tStartMs |-> start, dDurationMs |-> duration, segs |-> segs]

\* events the extractor skips
\* an element of `events` that is a number
NotAnObject == [isdict |-> FALSE, tStartMs |-> Absent, dDurationMs |-> Absent, segs |-> NoSegs]
NoStart == Event(Absent, JInt(1000), Segs(<<Utf8(<<"H", "i">>)>>))
NullStart == Event(JNull, JInt(1000), Segs(<<Utf8(<<"H", "i">>)>>))
NoText == Event(JInt(0), Absent, Segs(<<Utf8(<<" ", "<", "b", ">", NL>>)>>))
DefectiveEvents == {NotAnObject, NoStart, NullStart, NoText}

\* events that yield a cue
Hi_1000_4000 == Event(JInt(1000), JInt(3000), Segs(<<Utf8(<<"H", "i">>)>>))
hi_1000_3000 == Event(JInt(1000), Absent, Segs(<<AltText(<<"h", "i">>)>>))
yo_neg == Event(JInt(0 - 3000), JInt(1000),
                Segs(<<Utf8(<<"y">>), NotASegment, AltText(<<"o">>)>>))
GoodEvents == {Hi_1000_4000, hi_1000_3000, yo_neg}

\* an event whose tStartMs is a string
StringStart == Event(JStr(<<"1", "2">>), Absent, Segs(<<Utf8(<<"H", "i">>)>>))

TailPool == DefectiveEvents \cup GoodEvents \cup {StringStart}

\* up to MaxPad copies of one defective event, then up to MaxTail events
EventLists ==
    LET pads == {<<>>} \cup {[i \in 1..k |-> d] : k \in 1..MaxPad, d \in DefectiveEvents}
    IN  {p \o t : p \in pads, t \in SeqsUpTo(TailPool, MaxTail)}

\* a root object, with what its key `events` holds
Document(events_value) == [isdict |-> TRUE, events |-> events_value]
EventList(l) == [t |-> "list", list |-> l]
NoEvents == [t |-> "absent", list |-> <<>>]
StringEvents == [t |-> "str", list |-> <<>>]
\* a root that is a list, and the root of a file that could not be loaded
ListRoot == [isdict |-> FALSE, events |-> NoEvents]

Roots ==
    {ListRoot, Document(NoEvents), Document(StringEvents)}
        \cup {Document(EventList(l)) : l \in EventLists}

InputFiles ==
    {[file |-> f, root |-> ListRoot] : f \in {"missing", "unreadable", "invalid_json"}}
        \cup {[file |-> "ok", root |-> r] : r \in Roots}

NoFile == [exists |-> FALSE, content |-> <<>>]
OldFile == [exists |-> TRUE, content |-> <<"o", "l", "d">>]

(***************************************************************************)
(* convert_file                                                            *)
(***************************************************************************)
HarnessIdle ==
    /\ merge_runs = <<>>
    /\ clean_runs = <<>>
    /\ ms_in = 0
    /\ vtt_time = <<>>

Init ==
    /\ data \in InputFiles
    /\ pc = "start"
    /\ valid = "None"
    /\ events = <<>>
    /\ vtt_content = <<>>
    /\ output_file \in {NoFile, OldFile}
    /\ output_before = output_file
    /\ result = "None"
    /\ error = "none"
    /\ stages = <<>>
    /\ HarnessIdle

harness_vars == <<merge_runs, clean_runs, ms_in, vtt_time>>

\* logger.error(...); return False
Fail(err) ==
    /\ pc' = "done"
    /\ result' = "False"
    /\ error' = err

\* if not os.path.exists(input_path): ... return False
CheckInput ==
    /\ pc = "start"
    /\ IF data.file = "missing"
       THEN Fail("not_found")
       ELSE pc' = "load" /\ UNCHANGED <<result, error>>
    /\ UNCHANGED <<data, valid, events, vtt_content, output_file, output_before,
                   stages, harness_vars>>

\* with open(input_path) as f: data = json.load(f), and the except clauses for
\* IOError and json.JSONDecodeError
Load ==
    /\ pc = "load"
    /\ IF data.file = "unreadable" THEN Fail("io")
       ELSE IF data.file = "invalid_json" THEN Fail("json_decode")
       ELSE pc' = "validate" /\ UNCHANGED <<result, error>>
    /\ UNCHANGED <<data, valid, events, vtt_content, output_file, output_before,
                   stages, harness_vars>>

\* if not self.validate_json3_structure(data): return False
Validate ==
    /\ pc = "validate"
    /\ stages' = Append(stages, "validate")
    /\ IF validate_json3_structure(data.root)
       THEN valid' = "True" /\ pc' = "extract" /\ UNCHANGED <<result, error>>
       ELSE valid' = "False" /\ Fail("validate")
    /\ UNCHANGED <<data, events, vtt_content, output_file, output_before,
                   harness_vars>>

\* the extraction step without the `if not events` check
Extract_NoEmptyCheck ==
    /\ pc = "extract"
    /\ stages' = Append(stages, "extract")
    /\ IF ParseRaises(data.root)
       THEN Fail("unexpected") /\ UNCHANGED events
       ELSE /\ events' = parse_json3_events(data.root)
            /\ pc' = "merge" /\ UNCHANGED <<result, error>>
    /\ UNCHANGED <<data, valid, vtt_content, output_file, output_before,
                   harness_vars>>

\* events = self.parse_json3_events(data); if not events: ... return False; and
\* `except Exception` for what parse_json3_events raises
Extract ==
    /\ pc = "extract"
    /\ stages' = Append(stages, "extract")
    /\ IF ParseRaises(data.root)
       THEN Fail("unexpected") /\ UNCHANGED events
       ELSE /\ events' = parse_json3_events(data.root)
            /\ IF events' = <<>>
               THEN Fail("empty_result")
               ELSE pc' = "merge" /\ UNCHANGED <<result, error>>
    /\ UNCHANGED <<data, valid, vtt_content, output_file, output_before,
                   harness_vars>>

\* events = self.merge_overlapping_events(events)
Merge ==
    /\ pc = "merge"
    /\ stages' = Append(stages, "merge")
    /\ events' = merge_overlapping_events(events)
    /\ pc' = "render"
    /\ UNCHANGED <<data, valid, vtt_content, output_file, output_before, result,
                   error, harness_vars>>

\* vtt_content = self.generate_vtt_content(events)
Render ==
    /\ pc = "render"
    /\ stages' = Append(stages, "render")
    /\ vtt_content' = generate_vtt_content(events)
    /\ pc' = "write"
    /\ UNCHANGED <<data, valid, events, output_file, output_before, result, error,
                   harness_vars>>

\* os.makedirs(...); with open(output_path, 'w') as f: f.write(vtt_content); return
\* True.  makedirs or open may raise IOError (the file is as it was); f.write may
\* raise it after open has truncated the file.
Write ==
    /\ pc = "write"
    /\ stages' = Append(stages, "write")
    /\ \/ /\ output_file' = [exists |-> TRUE, content |-> vtt_content]
          /\ pc' = "done" /\ result' = "True" /\ UNCHANGED error
       \/ /\ UNCHANGED output_file
          /\ Fail("io")
       \/ /\ output_file' = [exists |-> TRUE, content |-> <<>>]
          /\ Fail("io")
    /\ UNCHANGED <<data, valid, events, vtt_content, output_before, harness_vars>>

Next ==
    \/ CheckInput
    \/ Load
    \/ Validate
    \/ Extract
    \/ Merge
    \/ Render
    \/ Write

Spec == Init /\ [][Next]_vars

(***************************************************************************)
(* The pure functions, each called on inputs drawn from a bounded set.     *)
(* convert_file is not running in these specifications.                    *)
(***************************************************************************)
MaxCalls == 3

PipelineIdle ==
    /\ data = [file |-> "missing", root |-> ListRoot]
    /\ pc = "idle"
    /\ valid = "None"
    /\ events = <<>>
    /\ vtt_content = <<>>
    /\ output_file = NoFile
    /\ output_before = NoFile
    /\ result = "None"
    /\ error = "none"
    /\ stages = <<>>

\* merge_overlapping_events on any cue sequence, sorted or not
MaxCues == 3

CueStarts == {0, 1500, 1501}
CueDurations == {1000, 3000}
CueTexts == {<<"H", "i">>, <<" ", "h", "i">>, <<"y", "o">>}
CuePool == {<<s, s + d, t>> : s \in CueStarts, d \in CueDurations, t \in CueTexts}

InitMerge ==
    /\ PipelineIdle
    /\ merge_runs \in {<<x>> : x \in SeqsUpTo(CuePool, MaxCues)}
    /\ clean_runs = <<>>
    /\ ms_in = 0
    /\ vtt_time = <<>>

\* merged = merge_overlapping_events(the previous result)
MergeCall ==
    /\ Len(merge_runs) < MaxCalls
    /\ merge_runs' = Append(merge_runs,
                            merge_overlapping_events(merge_runs[Len(merge_runs)]))
    /\ UNCHANGED <<pipeline_vars, clean_runs, ms_in, vtt_time>>

SpecMerge == InitMerge /\ [][MergeCall]_vars

\* clean_text on strings put together from fragments
MaxFragments == 3

Fragments ==
    { <<"&", "a", "m", "p", ";">>, <<"&", "l", "t", ";">>, <<"&", "g", "t", ";">>,
      <<"&", "q", "u", "o", "t", ";">>, <<"&", "#", "3", "9", ";">>,
      <<"a", "m", "p", ";">>, <<"l", "t", ";">>,
      <<"<", "b", ">">>, <<"<">>, <<">">>, <<"a">>, <<" ">>, <<NL>>, <<NBSP>> }

InitClean ==
    /\ PipelineIdle
    /\ clean_runs \in {<<Concat(f)>> : f \in SeqsUpTo(Fragments, MaxFragments)}
    /\ merge_runs = <<>>
    /\ ms_in = 0
    /\ vtt_time = <<>>

\* text = clean_text(the previous result)
CleanCall ==
    /\ Len(clean_runs) < MaxCalls
    /\ clean_runs' = Append(clean_runs, clean_text(clean_runs[Len(clean_runs)]))
    /\ UNCHANGED <<pipeline_vars, merge_runs, ms_in, vtt_time>>

SpecClean == InitClean /\ [][CleanCall]_vars

\* milliseconds_to_vtt_time around the values where a field rolls over
MaxDelta == 25

TimeMarks == {0, 1000, 60000, 3600000, 36000000, 86400000, 97200000, 360000000}
TimeInputs == {m + d : m \in TimeMarks, d \in (0 - MaxDelta)..MaxDelta}

InitTime ==
    /\ PipelineIdle
    /\ ms_in \in TimeInputs
    /\ vtt_time = <<>>
    /\ merge_runs = <<>>
    /\ clean_runs = <<>>

\* vtt_time = milliseconds_to_vtt_time(ms_in)
FormatCall ==
    /\ vtt_time = <<>>
    /\ vtt_time' = milliseconds_to_vtt_time(ms_in)
    /\ UNCHANGED <<pipeline_vars, merge_runs, clean_runs, ms_in>>

SpecTime == InitTime /\ [][FormatCall]_vars

(***************************************************************************)
(* Properties                                                              *)
(***************************************************************************)
Range(seq) == {seq[i] : i \in 1..Len(seq)}

AllStages == <<"validate", "extract", "merge", "render", "write">>

IsPrefix(a, b) == Len(a) <= Len(b) /\ SubSeq(b, 1, Len(a)) = a

\* the extractor has returned an empty list
ZeroCues == "extract" \in Range(stages) /\ error # "unexpected" /\ events = <<>>

\* C1: when the validator returns false or the extractor yields no cue, the call
\* returns False at once, with no merge, render or write and the output file as it
\* was; the stages run in the order validate, extract, merge, render, write, and
\* the output file changes only after all of them.
C1_ShortCircuit ==
    /\ IsPrefix(stages, AllStages)
    /\ (valid = "False" \/ ZeroCues) =>
           /\ pc = "done"
           /\ result = "False"
           /\ output_file = output_before
           /\ Range(stages) \cap {"merge", "render", "write"} = {}
    /\ output_file # output_before => stages = AllStages

C1_Witness ==
    /\ pc = "done"
    /\ error = "empty_result"
    /\ valid = "True"
    /\ output_before = OldFile
    /\ stages = <<"validate", "extract">>

\* C2: merge_overlapping_events never returns more cues than it was given, and
\* applying it to its own result changes nothing.
C2_MergeIdempotentNonExpanding ==
    /\ Len(merge_runs) >= 2 => Len(merge_runs[2]) <= Len(merge_runs[1])
    /\ \A k \in 3..Len(merge_runs) : merge_runs[k] = merge_runs[2]

\* an unsorted input that the first call shortened to two cues, merged twice
C2_Witness ==
    /\ Len(merge_runs) >= 3
    /\ Len(merge_runs[1]) = 3
    /\ Len(merge_runs[2]) = 2
    /\ merge_runs[1][1][1] > merge_runs[1][2][1]

\* every cue has the text of the first, and starts within the tolerance of the
\* largest end before it
IsChain(cues) ==
    /\ cues # <<>>
    /\ \A i \in 2..Len(cues) :
          /\ SameText(cues[i][3], cues[1][3])
          /\ \E j \in 1..(i - 1) : cues[i][1] <= cues[j][2] + MergeTolerance

MaxEnd(cues) == CHOOSE e \in {c[2] : c \in Range(cues)} : \A c \in Range(cues) : c[2] <= e

\* C3: in the merger's output no cue starts within 500 ms of the end of the cue
\* before it while having the same text (case and surrounding white space aside);
\* a chain of same-text cues of any length folds into one cue that ends at the
\* largest end of the chain.
C3_NoAdjacentDuplicates ==
    Len(merge_runs) >= 2 =>
        LET in == merge_runs[1]
            out == merge_runs[2]
        IN  /\ \A i \in 1..(Len(out) - 1) :
                  ~(/\ out[i + 1][1] <= out[i][2] + MergeTolerance
                    /\ LowerStr(Strip(out[i + 1][3])) = LowerStr(Strip(out[i][3])))
            /\ IsChain(in) => out = << <<in[1][1], MaxEnd(in), in[1][3]>> >>

\* a chain of three whose last cue is in reach of the first cue's end only
C3_Witness ==
    /\ Len(merge_runs) >= 2
    /\ Len(merge_runs[1]) = 3
    /\ IsChain(merge_runs[1])
    /\ merge_runs[1][3][1] > merge_runs[1][2][2] + MergeTolerance
    /\ Len(merge_runs[2]) = 1

\* C4, as claimed: clean_text(clean_text(s)) = clean_text(s) for every string s
C4_CleanIdempotent ==
    \A k \in 3..Len(clean_runs) : clean_runs[k] = clean_runs[2]

\* C4, amended: clean_text(clean_text(s)) = clean_text(s) for every string s that
\* holds no '&'
C4_CleanIdempotentWithoutAmpersand ==
    "&" \notin Range(clean_runs[1]) =>
        \A k \in 3..Len(clean_runs) : clean_runs[k] = clean_runs[2]

\* a string with a tag and white space and no '&', cleaned twice
C4_Witness ==
    /\ Len(clean_runs) >= 3
    /\ "&" \notin Range(clean_runs[1])
    /\ {"<", ">", " "} \subseteq Range(clean_runs[1])
    /\ clean_runs[2] # clean_runs[1]
    /\ clean_runs[2] # <<>>

\* reading a timestamp back
DigitChars == {"0", "1", "2", "3", "4", "5", "6", "7", "8", "9"}

DigitValue(c) ==
    CASE c = "0" -> 0 [] c = "1" -> 1 [] c = "2" -> 2 [] c = "3" -> 3
      [] c = "4" -> 4 [] c = "5" -> 5 [] c = "6" -> 6 [] c = "7" -> 7
      [] c = "8" -> 8 [] c = "9" -> 9

RECURSIVE ParseInt(_)
ParseInt(s) ==
    IF s = <<>> THEN 0
    ELSE ParseInt(SubSeq(s, 1, Len(s) - 1)) * 10 + DigitValue(s[Len(s)])

\* ^\d{2,}:\d{2}:\d{2}\.\d{3}$
TimestampForm(ts) ==
    LET n == Len(ts)
    IN  /\ n >= 12
        /\ ts[n - 9] = ":"
        /\ ts[n - 6] = ":"
        /\ ts[n - 3] = "."
        /\ \A i \in (1..n) \ {n - 9, n - 6, n - 3} : ts[i] \in DigitChars

HoursOf(ts) == ParseInt(SubSeq(ts, 1, Len(ts) - 10))
MinutesOf(ts) == ParseInt(SubSeq(ts, Len(ts) - 8, Len(ts) - 7))
SecondsOf(ts) == ParseInt(SubSeq(ts, Len(ts) - 5, Len(ts) - 4))
MillisOf(ts) == ParseInt(SubSeq(ts, Len(ts) - 2, Len(ts)))

DecodeTimestamp(ts) ==
    HoursOf(ts) * 3600000 + MinutesOf(ts) * 60000 + SecondsOf(ts) * 1000 + MillisOf(ts)

\* C5: for ms >= 0, milliseconds_to_vtt_time(ms) has the form HH:MM:SS.mmm with at
\* least two hour digits, minutes and seconds within 00..59, and reads back as
\* hours*3600000 + minutes*60000 + seconds*1000 + millis = ms (so the hours are not
\* wrapped); for ms < 0 it is the result for 0.
C5_TimestampRoundTrip ==
    vtt_time # <<>> =>
        IF ms_in >= 0
        THEN /\ TimestampForm(vtt_time)
             /\ MinutesOf(vtt_time) <= 59
             /\ SecondsOf(vtt_time) <= 59
             /\ DecodeTimestamp(vtt_time) = ms_in
        ELSE vtt_time = milliseconds_to_vtt_time(0)

\* a time past 100 hours, with three hour digits
C5_Witness ==
    /\ vtt_time # <<>>
    /\ ms_in > 360000000
    /\ Len(vtt_time) = 13

\* the document is an object whose `events` is a list
HasEventList == data.file = "ok" /\ data.root.isdict /\ data.root.events.t = "list"

\* not an object, no start time, or no text after cleaning
IsDefective(event) ==
    \/ ~event.isdict
    \/ IsNone(event.tStartMs)
    \/ extract_text_from_segments(event.segs) = <<>>

RECURSIVE WithoutDefective(_)
WithoutDefective(evs) ==
    IF evs = <<>> THEN <<>>
    ELSE IF IsDefective(Head(evs)) THEN WithoutDefective(Tail(evs))
         ELSE <<Head(evs)>> \o WithoutDefective(Tail(evs))

\* what converting `root` gives when the write succeeds: the value returned and the
\* text written
Converted(root) ==
    IF validate_json3_structure(root) /\ ~ParseRaises(root)
          /\ parse_json3_events(root) # <<>>
    THEN <<"True", generate_vtt_content(merge_overlapping_events(parse_json3_events(root)))>>
    ELSE <<"False", <<>> >>

\* C6: a defective event (not an object, no tStartMs, or no text after cleaning) is
\* skipped and nothing else: converting a document whose `events` is a list gives
\* what converting it with the defective events taken out gives, wherever they are
\* in the list.
C6_OnlyDefectiveSkipped ==
    (pc = "done" /\ HasEventList /\ error # "io") =>
        LET expected == Converted(Document(EventList(WithoutDefective(data.root.events.list))))
        IN  /\ result = expected[1]
            /\ result = "True" => output_file.content = expected[2]

\* the document's only event is an object with no tStartMs key
OnlyEventLacksStart ==
    /\ HasEventList
    /\ Len(data.root.events.list) = 1
    /\ data.root.events.list[1].isdict
    /\ ~HasKey(data.root.events.list[1].tStartMs)

\* C7, as claimed: when the only event has no tStartMs the conversion fails at the
\* empty-result check, after the extractor has run.
C7_FailsAtEmptyResult ==
    (OnlyEventLacksStart /\ pc = "done") =>
        /\ result = "False"
        /\ error = "empty_result"
        /\ "extract" \in Range(stages)

\* C7, amended: when the only event has no tStartMs the conversion fails in the
\* validator, which finds no event with tStartMs; the extractor never runs and the
\* output file is as it was.
C7_FailsAtValidator ==
    (OnlyEventLacksStart /\ pc = "done") =>
        /\ result = "False"
        /\ error = "validate"
        /\ stages = <<"validate">>
        /\ output_file = output_before

C7_Witness ==
    /\ OnlyEventLacksStart
    /\ pc = "done"
    /\ output_before = OldFile

\* C8: what parse_json3_events returns is in non-decreasing order of start_ms, and
\* cues with the same start_ms are in the order of their events in the document.
C8_SortedAndStable ==
    pc = "merge" =>
        LET raw == CollectEvents(data.root.events.list, 1)
        IN  /\ Len(events) = Len(raw)
            /\ \A i \in 1..(Len(events) - 1) : events[i][1] <= events[i + 1][1]
            /\ \A c \in Range(raw) :
                  LET SameStart(x) == x[1] = c[1]
                  IN  SelectSeq(events, SameStart) = SelectSeq(raw, SameStart)

\* two cues with one start time were extracted, the one that ends later first, as
\* in the document
C8_Witness ==
    /\ pc = "merge"
    /\ \E i \in 1..(Len(events) - 1) :
          /\ events[i][1] = events[i + 1][1]
          /\ events[i][2] > events[i + 1][2]

\* the events of the document that yield a cue
Survivors ==
    {e \in Range(data.root.events.list) : EventSurvives(e)}

RECURSIVE SplitLines(_, _, _)
\* text.split("\n")
SplitLines(text, i, line) ==
    IF i > Len(text) THEN <<line>>
    ELSE IF text[i] = NL THEN <<line>> \o SplitLines(text, i + 1, <<>>)
         ELSE SplitLines(text, i + 1, Append(line, text[i]))

\* the two timestamps of the line "<start> --> <end>"
StartStamp(line) ==
    LET sp == CHOOSE i \in 1..Len(line) : line[i] = " " /\ \A j \in 1..(i - 1) : line[j] # " "
    IN  SubSeq(line, 1, sp - 1)
EndStamp(line) ==
    LET sp == CHOOSE i \in 1..Len(line) : line[i] = " " /\ \A j \in 1..(i - 1) : line[j] # " "
    IN  SubSeq(line, sp + Len(Arrow), Len(line))

\* the merger has its input, or has run on it
PastExtraction == pc \in {"merge", "render", "write"} \/ "write" \in Range(stages)

\* C9, as claimed: every cue the extractor produces, and so every cue the merger
\* and the renderer see, has start_ms >= 0.
C9_StartNonNegative ==
    PastExtraction => \A i \in 1..Len(events) : events[i][1] >= 0

\* C9, amended: a cue the extractor produces has the start time of its event as it
\* is in the document, negative if that is negative, and the merger gets it so; only
\* the renderer's timestamps are clamped: each is that of max(0, ms).
C9_ClampedOnlyWhenRendered ==
    /\ pc = "merge" =>
           {events[i][1] : i \in 1..Len(events)} = {e.tStartMs.n : e \in Survivors}
    /\ "render" \in Range(stages) =>
           LET lines == SplitLines(vtt_content, 1, <<>>)
           IN  /\ Len(lines) = 4 * Len(events) + 2
               /\ \A i \in 1..Len(events) :
                     /\ DecodeTimestamp(StartStamp(lines[4 * i])) = Max(0, events[i][1])
                     /\ DecodeTimestamp(EndStamp(lines[4 * i])) = Max(0, events[i][2])

\* a cue with a negative start was merged, rendered and written
C9_Witness ==
    /\ pc = "done"
    /\ result = "True"
    /\ \E i \in 1..Len(events) : events[i][1] < 0
    /\ \E i \in 1..Len(events) : events[i][1] > 0

\* C10: the entity table is applied in one pass, and what one entry put in is not
\* read by a later entry: "&amp;lt;" is cleaned to "&lt;".
C10_SinglePass ==
    (Len(clean_runs) >= 2 /\ clean_runs[1] = <<"&", "a", "m", "p", ";", "l", "t", ";">>) =>
        clean_runs[2] = <<"&", "l", "t", ";">>

=============================================================================
